---- MODULE Spec2Model ----
(***************************************************************************)
(* The CRUD API of app/main.py over the tables of app/models.py, with the *)
(* request validation of app/schemas.py.  The store is the three tables;  *)
(* every route handler is one action; `last` is the response the API gave *)
(* to the most recent request.                                            *)
(***************************************************************************)
EXTENDS Integers, Sequences, FiniteSets, TLC

VARIABLES users, projects, courses, last, sess

vars == <<users, projects, courses, last, sess>>

store == <<users, projects, courses>>

\* ------------------------------------------------------------------ bounds

MaxUserId == 2
MaxProjectId == 2
MaxCourseId == 2
MaxLimit == 2

\* ------------------------------------------------- constants of schemas.py

AgeGt == 18
AgeGe == 18
AgeLe == 150
CreditsGe == 1
CreditsLe == 120
DefaultLimit == 10
DefaultOffset == 0

\* --------------------------------------------------------- value domains

None == "<None>"
Absent == 0 - 1

StudentIds == {"S0000001", "S0000002"}
Emails == {"a@atu.ie", "b@atu.ie"}
Names == {"Ann"}
AgeInputs == {17, 18, 19}
ProjectNames == {"P1", "P2"}
Descs == {"text"}
Codes == {"CS101", "CS102", "CS103"}
CourseNames == {"Intro"}
CreditInputs == {0, 5, 10, 121}

UserIds == 1..MaxUserId
ProjectIds == 1..MaxProjectId

UserFields == {"student_id", "name", "email", "age"}

Restrict(f, D) == [k \in D |-> f[k]]

Max(S) == CHOOSE x \in S : \A y \in S : y <= x
Min(S) == CHOOSE x \in S : \A y \in S : x <= y

\* primary key of a new row: one more than the largest key of the table
\* (an integer primary key with no AUTOINCREMENT; a key can come back after a delete)
NextId(ids) == IF ids = {} THEN 1 ELSE Max(ids) + 1

RECURSIVE SortedIds(_)
SortedIds(S) == IF S = {} THEN <<>> ELSE <<Min(S)>> \o SortedIds(S \ {Min(S)})

\* ------------------------------------------------------ request payloads
\* Every string drawn below satisfies its StringConstraints (length, pattern,
\* EmailStr); the numbers are drawn on both sides of their limits.

UserCreatePayloads == [student_id : StudentIds, name : Names, email : Emails, age : AgeInputs]

\* a UserUpdate body carries any subset of the fields (model_dump(exclude_unset=True))
UserUpdatePayloads == {Restrict(p, D) : p \in UserCreatePayloads, D \in SUBSET UserFields}

\* the user bodies of the specifications about projects: one name, one age
FewUserCreatePayloads == {p \in UserCreatePayloads : p.name = "Ann" /\ p.age = 19}

FewUserUpdatePayloads == {Restrict(p, D) : p \in FewUserCreatePayloads, D \in SUBSET UserFields}

ProjectCreatePayloads == [name : ProjectNames, description : Descs \cup {None}, owner_id : UserIds]

\* fewer bodies still: two users that never collide, projects of one name
TwoUserCreatePayloads ==
    {p \in FewUserCreatePayloads : (p.student_id = "S0000001") <=> (p.email = "a@atu.ie")}

TwoUserUpdatePayloads == {Restrict(p, D) : p \in TwoUserCreatePayloads, D \in SUBSET UserFields}

OneNameProjectCreatePayloads == {p \in ProjectCreatePayloads : p.name = "P1"}

OneNameProjectUpdatePayloads ==
    {Restrict(p, D) : p \in [name : {"P1", None}, description : Descs \cup {None}],
                      D \in SUBSET {"name", "description"}}

\* and projects with no description
BareProjectCreatePayloads == {p \in OneNameProjectCreatePayloads : p.description = None}

BareProjectUpdatePayloads == {p \in OneNameProjectUpdatePayloads :
                                 "description" \in DOMAIN p => p.description = None}

ProjectCreateForUserPayloads == [name : {"P1"}, description : Descs \cup {None}]

ProjectUpdatePayloads ==
    {Restrict(p, D) : p \in [name : ProjectNames \cup {None}, description : Descs \cup {None}],
                      D \in SUBSET {"name", "description"}}

CourseCreatePayloads == [code : Codes, name : CourseNames, credits : CreditInputs]

FewCourseCreatePayloads == {c \in CourseCreatePayloads : c.code # "CS103" /\ c.credits = 5}

\* payload.model_dump(exclude_unset=True) of patch_user: the fields the body set
UserUpdateDump(p) == p

\* model_dump() where exclude_unset=True is meant: the fields the body left out are None
ProjectUpdateDump_Unset(p) ==
    [f \in {"name", "description"} |-> IF f \in DOMAIN p THEN p[f] ELSE None]

\* payload.model_dump(exclude_unset=True) of patch_project: the fields the body set
ProjectUpdateDump(p) == p

\* ------------------------------------------------------------ validation

UserCreateValid(p) == p.age > AgeGt

AgeIntValid(a) == a >= AgeGe /\ a <= AgeLe

UserUpdateValid(p) == "age" \in DOMAIN p => AgeIntValid(p.age)

CourseCreateValid(p) == p.credits >= CreditsGe /\ p.credits <= CreditsLe

\* ----------------------------------------------------------- responses

UserRead(id, row) == [id |-> id, student_id |-> row.student_id, name |-> row.name,
                      email |-> row.email, age |-> row.age]

ProjectRead(id, row) == [id |-> id, name |-> row.name, description |-> row.description,
                         owner_id |-> row.owner_id]

ProjectReadWithOwner(id, row, us) ==
    [id |-> id, name |-> row.name, description |-> row.description, owner_id |-> row.owner_id,
     owner |-> IF row.owner_id \in DOMAIN us
               THEN <<UserRead(row.owner_id, us[row.owner_id])>> ELSE <<>>]

CourseRead(id, row) == [id |-> id, code |-> row.code, name |-> row.name, credits |-> row.credits]

\* op: the route; id: the id in the path (0 when the route has none);
\* status: the HTTP status; body: the entities returned, in order
Response(op, id, status, body) == [op |-> op, id |-> id, status |-> status, body |-> body]

\* ------------------------------------------------- the tables' constraints

\* users without unique=True on student_id
UsersConstraintOK_EmailOnly(us) ==
    \A i, j \in DOMAIN us : i # j => us[i].email # us[j].email

\* users.email and users.student_id are unique
UsersConstraintOK(us) ==
    \A i, j \in DOMAIN us :
        i # j => us[i].email # us[j].email /\ us[i].student_id # us[j].student_id

\* the engine enforces projects.owner_id REFERENCES users.id
ForeignKeysEnforced == TRUE

\* a row of projects: name is NOT NULL; owner_id references a row of users
ProjectRowOK(row, us) ==
    /\ row.name # None
    /\ ForeignKeysEnforced => row.owner_id \in DOMAIN us

\* courses.code is unique
CoursesConstraintOK(cs) == \A i, j \in DOMAIN cs : i # j => cs[i].code # cs[j].code

\* --------------------------------------------------------- the ORM session

\* the attributes a flush writes: those set to a value other than the loaded one
Dirty(snap, p) == {f \in DOMAIN p : p[f] # snap[f]}

Overwrite(row, p, d) == [f \in DOMAIN row |-> IF f \in d THEN p[f] ELSE row[f]]

\* setattr of every entry of p on the user loaded as snap, commit, refresh.
\* 200: written; 400: IntegrityError, rolled back; 500: the row is gone
\* (StaleDataError of the UPDATE, or InvalidRequestError of the refresh)
FlushUser(us, id, snap, p) ==
    LET d == Dirty(snap, p)
        new == [us EXCEPT ![id] = Overwrite(@, p, d)]
    IN  IF id \notin DOMAIN us THEN [users |-> us, status |-> 500]
        ELSE IF d = {} THEN [users |-> us, status |-> 200]
        ELSE IF UsersConstraintOK(new) THEN [users |-> new, status |-> 200]
        ELSE [users |-> us, status |-> 400]

FlushProject(ps, us, id, snap, p) ==
    LET d == Dirty(snap, p)
        new == [ps EXCEPT ![id] = Overwrite(@, p, d)]
    IN  IF id \notin DOMAIN ps THEN [projects |-> ps, status |-> 500]
        ELSE IF d = {} THEN [projects |-> ps, status |-> 200]
        ELSE IF ProjectRowOK(new[id], us) THEN [projects |-> new, status |-> 200]
        ELSE [projects |-> ps, status |-> 400]

\* db.delete(user) with no cascade on the relationship
CascadeDelete_None(ps, id) == ps

\* db.delete(user) that takes every project with it
CascadeDelete_All(ps, id) == Restrict(ps, {})

\* the projects left by db.delete(user): relationship cascade "all, delete-orphan"
CascadeDelete(ps, id) == Restrict(ps, {k \in DOMAIN ps : ps[k].owner_id # id})

\* commit_or_rollback(db, error_msg) for a session holding one added row:
\* commit; on IntegrityError roll back, build the 409 HTTPException and drop it
commit_or_rollback(old, new, ok) ==
    IF ok THEN [table |-> new, persistent |-> TRUE, raised |-> FALSE]
    ELSE [table |-> old, persistent |-> FALSE, raised |-> FALSE]

\* what a create route answers after commit_or_rollback(...): db.refresh(row) of
\* a row the rollback expunged raises InvalidRequestError, which nothing catches
CreateStatus(c) == IF c.raised THEN 409 ELSE IF c.persistent THEN 201 ELSE 500

\* ------------------------------------------------------------------ state

Procs == {"w1"}

Idle == [op |-> "idle"]

Init ==
    /\ users = <<>>
    /\ projects = <<>>
    /\ courses = <<>>
    /\ last = Response("none", 0, 0, <<>>)
    /\ sess = [p \in Procs |-> Idle]

Answer(r) == last' = r
Error(op, id, status) == Response(op, id, status, <<>>)

\* ------------------------------------------------------------------ users

\* POST /api/users
add_user(payload) ==
    LET id == NextId(DOMAIN users)
        new == users @@ (id :> payload)
    IN  /\ id <= MaxUserId
        /\ IF ~UserCreateValid(payload)
              THEN users' = users /\ Answer(Error("add_user", 0, 422))
           ELSE IF ~UsersConstraintOK(new)
              THEN users' = users /\ Answer(Error("add_user", 0, 400))
           ELSE users' = new /\ Answer(Response("add_user", 0, 201, <<UserRead(id, payload)>>))
        /\ UNCHANGED <<projects, courses, sess>>

\* GET /api/users/{users_id}
get_user(users_id) ==
    /\ IF users_id \notin DOMAIN users
          THEN Answer(Error("get_user", users_id, 404))
          ELSE Answer(Response("get_user", users_id, 200, <<UserRead(users_id, users[users_id])>>))
    /\ UNCHANGED <<users, projects, courses, sess>>

\* update_user with the except branch building the HTTPException and not raising it
WriteUser_Swallow(op, users_id, snap, payload) ==
    LET f == FlushUser(users, users_id, snap, payload)
    IN  /\ users' = f.users
        /\ IF users_id \in DOMAIN f.users
              THEN Answer(Response(op, users_id, 200, <<UserRead(users_id, f.users[users_id])>>))
              ELSE Answer(Error(op, users_id, f.status))

\* the commit and the answer of update_user and patch_user for the user loaded as snap
WriteUser(op, users_id, snap, payload) ==
    LET f == FlushUser(users, users_id, snap, payload)
    IN  /\ users' = f.users
        /\ IF f.status = 200
              THEN Answer(Response(op, users_id, 200, <<UserRead(users_id, f.users[users_id])>>))
              ELSE Answer(Error(op, users_id, f.status))

\* PUT /api/users/update/{users_id}
update_user(users_id, payload) ==
    /\ IF ~UserCreateValid(payload)
          THEN users' = users /\ Answer(Error("update_user", users_id, 422))
       ELSE IF users_id \notin DOMAIN users
          THEN users' = users /\ Answer(Error("update_user", users_id, 404))
       ELSE WriteUser("update_user", users_id, users[users_id], payload)
    /\ UNCHANGED <<projects, courses, sess>>

\* PATCH /api/users/patch/{users_id}
patch_user(users_id, payload) ==
    /\ IF ~UserUpdateValid(payload)
          THEN users' = users /\ Answer(Error("patch_user", users_id, 422))
       ELSE IF users_id \notin DOMAIN users
          THEN users' = users /\ Answer(Error("patch_user", users_id, 404))
       ELSE WriteUser("patch_user", users_id, users[users_id], UserUpdateDump(payload))
    /\ UNCHANGED <<projects, courses, sess>>

\* db.delete(user); db.commit() of delete_user
DeleteUser(users_id) ==
    /\ users' = Restrict(users, DOMAIN users \ {users_id})
    /\ projects' = CascadeDelete(projects, users_id)
    /\ Answer(Response("delete_user", users_id, 204, <<>>))

\* delete_user without the check of what db.get returned
delete_user_NoCheck(users_id) ==
    /\ DeleteUser(users_id)
    /\ UNCHANGED <<courses, sess>>

\* DELETE /api/users/delete/{users_id}
delete_user(users_id) ==
    /\ IF users_id \notin DOMAIN users
          THEN UNCHANGED <<users, projects>> /\ Answer(Error("delete_user", users_id, 404))
          ELSE DeleteUser(users_id)
    /\ UNCHANGED <<courses, sess>>

\* --------------------------------------------------------------- projects

\* db.add(proj); commit_or_rollback(db, ...); db.refresh(proj); return proj
InsertProject(op, path_id, row) ==
    LET id == NextId(DOMAIN projects)
        c == commit_or_rollback(projects, projects @@ (id :> row), ProjectRowOK(row, users))
    IN  /\ id <= MaxProjectId
        /\ projects' = c.table
        /\ IF CreateStatus(c) = 201
              THEN Answer(Response(op, path_id, 201, <<ProjectRead(id, row)>>))
              ELSE Answer(Error(op, path_id, CreateStatus(c)))

\* POST /api/projects
create_project(project) ==
    /\ IF project.owner_id \notin DOMAIN users
          THEN projects' = projects /\ Answer(Error("create_project", 0, 404))
          ELSE InsertProject("create_project", 0, project)
    /\ UNCHANGED <<users, courses, sess>>

\* POST /api/users/{user_id}/projects: the handler's parameter is users_id, which
\* is not the path's {user_id}, so it is read from the query string and required
create_user_project(user_id, users_id, project) ==
    /\ IF users_id = Absent
          THEN projects' = projects /\ Answer(Error("create_user_project", user_id, 422))
       ELSE IF users_id \notin DOMAIN users
          THEN projects' = projects /\ Answer(Error("create_user_project", user_id, 404))
       ELSE InsertProject("create_user_project", user_id,
                          [name |-> project.name, description |-> project.description,
                           owner_id |-> users_id])
    /\ UNCHANGED <<users, courses, sess>>

\* GET /api/projects/{project_id}
get_project_with_owner(project_id) ==
    /\ IF project_id \notin DOMAIN projects
          THEN Answer(Error("get_project_with_owner", project_id, 404))
          ELSE Answer(Response("get_project_with_owner", project_id, 200,
                               <<ProjectReadWithOwner(project_id, projects[project_id], users)>>))
    /\ UNCHANGED <<users, projects, courses, sess>>

\* the commit and the answer of update_project and patch_project
WriteProject(op, project_id, snap, payload) ==
    LET f == FlushProject(projects, users, project_id, snap, payload)
    IN  /\ projects' = f.projects
        /\ IF f.status = 200
              THEN Answer(Response(op, project_id, 200,
                                   <<ProjectRead(project_id, f.projects[project_id])>>))
              ELSE Answer(Error(op, project_id, f.status))

\* PUT /api/projects/update/{project_id}
update_project(project_id, payload) ==
    /\ IF project_id \notin DOMAIN projects
          THEN projects' = projects /\ Answer(Error("update_project", project_id, 404))
          ELSE WriteProject("update_project", project_id, projects[project_id], payload)
    /\ UNCHANGED <<users, courses, sess>>

\* PATCH /api/projects/patch/{project_id}
patch_project(project_id, payload) ==
    /\ IF project_id \notin DOMAIN projects
          THEN projects' = projects /\ Answer(Error("patch_project", project_id, 404))
          ELSE WriteProject("patch_project", project_id, projects[project_id],
                            ProjectUpdateDump(payload))
    /\ UNCHANGED <<users, courses, sess>>

\* ---------------------------------------------------------------- courses

\* POST /api/courses
create_course(course) ==
    LET id == NextId(DOMAIN courses)
        new == courses @@ (id :> course)
        c == commit_or_rollback(courses, new, CoursesConstraintOK(new))
    IN  /\ id <= MaxCourseId
        /\ IF ~CourseCreateValid(course)
              THEN courses' = courses /\ Answer(Error("create_course", 0, 422))
           ELSE /\ courses' = c.table
                /\ IF CreateStatus(c) = 201
                      THEN Answer(Response("create_course", 0, 201, <<CourseRead(id, course)>>))
                      ELSE Answer(Error("create_course", 0, CreateStatus(c)))
        /\ UNCHANGED <<users, projects, sess>>

\* the page cut with limit as its last position, not its length
SelectCourses_LimitAsEnd(cs, limit, offset) ==
    LET ids == SortedIds(DOMAIN cs)
        rows == [k \in 1..Len(ids) |-> CourseRead(ids[k], cs[ids[k]])]
    IN  SubSeq(rows, offset + 1, Min({Len(rows), limit}))

\* select(CourseDB).order_by(CourseDB.id).limit(limit).offset(offset)
SelectCourses(cs, limit, offset) ==
    LET ids == SortedIds(DOMAIN cs)
        rows == [k \in 1..Len(ids) |-> CourseRead(ids[k], cs[ids[k]])]
    IN  SubSeq(rows, offset + 1, Min({Len(rows), offset + limit}))

\* GET /api/courses?limit&offset
list_courses(limit, offset) ==
    /\ Answer(Response("list_courses", 0, 200,
                       SelectCourses(courses, IF limit = Absent THEN DefaultLimit ELSE limit,
                                     IF offset = Absent THEN DefaultOffset ELSE offset)))
    /\ UNCHANGED <<users, projects, courses, sess>>

\* ------------------------------------------- one request after another

NextUsers ==
    \/ \E payload \in UserCreatePayloads : add_user(payload)
    \/ \E id \in UserIds : get_user(id)
    \/ \E id \in UserIds, payload \in UserCreatePayloads : update_user(id, payload)
    \/ \E id \in UserIds, payload \in UserUpdatePayloads : patch_user(id, payload)
    \/ \E id \in UserIds : delete_user(id)

SpecUsers == Init /\ [][NextUsers]_vars

Next ==
    \/ \E payload \in TwoUserCreatePayloads : add_user(payload)
    \/ \E id \in UserIds : get_user(id)
    \/ \E id \in UserIds, payload \in TwoUserCreatePayloads : update_user(id, payload)
    \/ \E id \in UserIds, payload \in TwoUserUpdatePayloads : patch_user(id, payload)
    \/ \E id \in UserIds : delete_user(id)
    \/ \E project \in OneNameProjectCreatePayloads : create_project(project)
    \/ \E id \in UserIds, q \in UserIds \cup {Absent}, project \in ProjectCreateForUserPayloads :
           create_user_project(id, q, project)
    \/ \E id \in ProjectIds : get_project_with_owner(id)
    \/ \E id \in ProjectIds, payload \in OneNameProjectCreatePayloads : update_project(id, payload)
    \/ \E id \in ProjectIds, payload \in OneNameProjectUpdatePayloads : patch_project(id, payload)

Spec == Init /\ [][Next]_vars

\* the partial updates, with every body
NextPatch ==
    \/ \E payload \in FewUserCreatePayloads : add_user(payload)
    \/ \E id \in UserIds, payload \in FewUserUpdatePayloads : patch_user(id, payload)
    \/ \E project \in ProjectCreatePayloads : create_project(project)
    \/ \E id \in ProjectIds, payload \in ProjectUpdatePayloads : patch_project(id, payload)

SpecPatch == Init /\ [][NextPatch]_vars

NextCourses ==
    \/ \E course \in CourseCreatePayloads : create_course(course)
    \/ \E limit \in (0..MaxLimit) \cup {Absent}, offset \in (0..MaxLimit) \cup {Absent} :
           list_courses(limit, offset)

SpecCourses == Init /\ [][NextCourses]_vars

\* --------------------------------------------- requests that overlap
\* A handler talks to the database twice: db.get(...) at its start and
\* db.commit() at its end.  Another request's commit can fall between the two.
\* sess[p] is the session of worker p between the two: the route, the id, the
\* row db.get returned.  The body is read when the commit is made; it plays no
\* part before.  add_user and create_course go to the database once.

Begin(p, op, id) == sess' = [sess EXCEPT ![p] = [op |-> op, id |-> id]]
BeginWith(p, op, id, snap) == sess' = [sess EXCEPT ![p] = [op |-> op, id |-> id, snap |-> snap]]
End(p) == sess' = [sess EXCEPT ![p] = Idle]

UserRoutes == {"update_user", "patch_user", "delete_user"}
OwnerRoutes == {"create_project", "create_user_project"}
ProjectRoutes == {"update_project", "patch_project"}

\* user = db.get(UserDB, users_id) of update_user, patch_user and delete_user
GetUser(p, op, users_id) ==
    /\ sess[p] = Idle
    /\ IF users_id \notin DOMAIN users
          THEN Answer(Error(op, users_id, 404)) /\ UNCHANGED sess
          ELSE BeginWith(p, op, users_id, users[users_id]) /\ UNCHANGED last
    /\ UNCHANGED <<users, projects, courses>>

\* user = db.get(UserDB, ...) of create_project and create_user_project
GetOwner(p, op, owner_id) ==
    /\ sess[p] = Idle
    /\ IF owner_id \notin DOMAIN users
          THEN Answer(Error(op, 0, 404)) /\ UNCHANGED sess
          ELSE Begin(p, op, owner_id) /\ UNCHANGED last
    /\ UNCHANGED <<users, projects, courses>>

\* proj = db.get(ProjectDB, project_id) of update_project and patch_project
GetProject(p, op, project_id) ==
    /\ sess[p] = Idle
    /\ IF project_id \notin DOMAIN projects
          THEN Answer(Error(op, project_id, 404)) /\ UNCHANGED sess
          ELSE BeginWith(p, op, project_id, projects[project_id]) /\ UNCHANGED last
    /\ UNCHANGED <<users, projects, courses>>

CommitUpdateUser(p, payload) ==
    /\ sess[p].op = "update_user"
    /\ WriteUser("update_user", sess[p].id, sess[p].snap, payload)
    /\ End(p)
    /\ UNCHANGED <<projects, courses>>

CommitPatchUser(p, payload) ==
    /\ sess[p].op = "patch_user"
    /\ WriteUser("patch_user", sess[p].id, sess[p].snap, UserUpdateDump(payload))
    /\ End(p)
    /\ UNCHANGED <<projects, courses>>

CommitDeleteUser(p) ==
    /\ sess[p].op = "delete_user"
    /\ DeleteUser(sess[p].id)
    /\ End(p)
    /\ UNCHANGED courses

CommitCreateProject(p, project) ==
    /\ sess[p].op \in OwnerRoutes
    /\ InsertProject(sess[p].op, 0, [name |-> project.name, description |-> project.description,
                                     owner_id |-> sess[p].id])
    /\ End(p)
    /\ UNCHANGED <<users, courses>>

CommitUpdateProject(p, payload) ==
    /\ sess[p].op = "update_project"
    /\ WriteProject("update_project", sess[p].id, sess[p].snap, payload)
    /\ End(p)
    /\ UNCHANGED <<users, courses>>

CommitPatchProject(p, payload) ==
    /\ sess[p].op = "patch_project"
    /\ WriteProject("patch_project", sess[p].id, sess[p].snap, ProjectUpdateDump(payload))
    /\ End(p)
    /\ UNCHANGED <<users, courses>>

\* One worker's request is open while any number of other requests run from
\* start to end.  db.get writes nothing, so two overlapping requests whose
\* db.get both come first behave as if one of the two ran whole inside the
\* other: every overlap of two requests is one of these runs.

\* users and courses: the routes that write a unique column
NextConcUsers ==
    \/ \E payload \in FewUserCreatePayloads : add_user(payload)
    \/ \E id \in UserIds, payload \in FewUserCreatePayloads : update_user(id, payload)
    \/ \E id \in UserIds, payload \in FewUserUpdatePayloads : patch_user(id, payload)
    \/ \E id \in UserIds : delete_user(id)
    \/ \E course \in FewCourseCreatePayloads : create_course(course)
    \/ \E p \in Procs, op \in UserRoutes, id \in UserIds : GetUser(p, op, id)
    \/ \E p \in Procs, payload \in FewUserCreatePayloads : CommitUpdateUser(p, payload)
    \/ \E p \in Procs, payload \in FewUserUpdatePayloads : CommitPatchUser(p, payload)
    \/ \E p \in Procs : CommitDeleteUser(p)

SpecConcUsers == Init /\ [][NextConcUsers]_vars

\* projects and their owners: the routes that write or remove an owner_id
NextConcProjects ==
    \/ \E payload \in TwoUserCreatePayloads : add_user(payload)
    \/ \E id \in UserIds : delete_user(id)
    \/ \E project \in BareProjectCreatePayloads : create_project(project)
    \/ \E id \in ProjectIds, payload \in BareProjectCreatePayloads : update_project(id, payload)
    \/ \E id \in ProjectIds, payload \in BareProjectUpdatePayloads : patch_project(id, payload)
    \/ \E p \in Procs, id \in UserIds : GetUser(p, "delete_user", id)
    \/ \E p \in Procs, op \in OwnerRoutes, id \in UserIds : GetOwner(p, op, id)
    \/ \E p \in Procs, op \in ProjectRoutes, id \in ProjectIds : GetProject(p, op, id)
    \/ \E p \in Procs : CommitDeleteUser(p)
    \/ \E p \in Procs, project \in BareProjectCreatePayloads : CommitCreateProject(p, project)
    \/ \E p \in Procs, payload \in BareProjectCreatePayloads : CommitUpdateProject(p, payload)
    \/ \E p \in Procs, payload \in BareProjectUpdatePayloads : CommitPatchProject(p, payload)

SpecConcProjects == Init /\ [][NextConcProjects]_vars

\* ------------------------------------------------------------- properties

Same(f, g, D) == \A k \in D : k \in DOMAIN f /\ k \in DOMAIN g /\ f[k] = g[k]

\* C1: in every reachable state, whatever the order and the overlap of add_user,
\* update_user, patch_user, delete_user and create_course, no two users share an
\* email, no two users share a student_id, and no two courses share a code.
C1_Unique ==
    /\ \A i, j \in DOMAIN users :
          (users[i].email = users[j].email \/ users[i].student_id = users[j].student_id) => i = j
    /\ \A i, j \in DOMAIN courses : courses[i].code = courses[j].code => i = j

\* two users and two courses are stored, and a patch_user that would have
\* duplicated a unique column has just been refused
C1_Witness ==
    /\ Cardinality(DOMAIN users) = 2
    /\ Cardinality(DOMAIN courses) = 2
    /\ last.op = "patch_user" /\ last.status = 400

\* C2: in every reachable state every stored project's owner_id is the id of a
\* stored user, after any create_project, create_user_project, update_project,
\* patch_project and delete_user, also when delete_user of the owner falls between
\* create_project's check of the owner and its insert.
C2_NoOrphan == \A k \in DOMAIN projects : projects[k].owner_id \in DOMAIN users

\* create_project found its owner, the owner was deleted, and the insert was refused
C2_Witness ==
    /\ last.op = "create_project" /\ last.status = 500
    /\ DOMAIN users # {}

\* C3: delete_user of a stored user removes that user and exactly the projects it
\* owns, answers 204, and leaves every other user, every other project and every
\* course as it was.
C3_DeleteCascades ==
    [][\A id \in DOMAIN users :
          (last'.op = "delete_user" /\ last'.id = id) =>
             /\ last'.status = 204
             /\ DOMAIN users' = DOMAIN users \ {id}
             /\ Same(users', users, DOMAIN users \ {id})
             /\ DOMAIN projects' = {k \in DOMAIN projects : projects[k].owner_id # id}
             /\ Same(projects', projects, DOMAIN projects')
             /\ courses' = courses]_vars

\* a user was deleted with project 1, and project 2, of the other user, is still there
C3_Witness ==
    /\ last.op = "delete_user" /\ last.status = 204
    /\ DOMAIN projects = {2}
    /\ DOMAIN users # {}

\* body p would give user id (0: a new user) the email or the student_id of another
Taken(id, p) ==
    \E o \in DOMAIN users \ {id} :
        \/ "email" \in DOMAIN p /\ p.email = users[o].email
        \/ "student_id" \in DOMAIN p /\ p.student_id = users[o].student_id

Refused == last'.status = 400 /\ users' = users

\* C4: when add_user, update_user or patch_user (called with a body that passed
\* validation) would give a user an email or a student_id that another stored
\* user holds, the answer is 400 and the stored users are exactly as before.
C4_DuplicateRefused ==
    [][Refused \/
       /\ last'.op = "add_user" =>
             \A p \in UserCreatePayloads :
                 (UserCreateValid(p) /\ Taken(0, p)) => ~add_user(p)
       /\ (last'.op = "update_user" /\ last'.id \in DOMAIN users) =>
             \A p \in UserCreatePayloads :
                 (UserCreateValid(p) /\ Taken(last'.id, p)) => ~update_user(last'.id, p)
       /\ (last'.op = "patch_user" /\ last'.id \in DOMAIN users) =>
             \A p \in UserUpdatePayloads :
                 (UserUpdateValid(p) /\ Taken(last'.id, p)) => ~patch_user(last'.id, p)]_vars

\* an update_user of one of two stored users has just been refused
C4_Witness ==
    /\ last.op = "update_user" /\ last.status = 400
    /\ Cardinality(DOMAIN users) = 2

\* C5: a create route that goes through commit_or_rollback answers 409 Conflict,
\* with no entity, when its insert violates a constraint of the table
\* (create_course with a code that is already stored).
C5_ConflictIs409 ==
    [][\A c \in CourseCreatePayloads :
          (CourseCreateValid(c) /\ (\E k \in DOMAIN courses : courses[k].code = c.code)
             /\ create_course(c))
          => (last'.status = 409 /\ last'.body = <<>> /\ courses' = courses)]_vars

\* C6: every stored user has an age above 18.
C6_StoredAgeAbove18 == \A u \in DOMAIN users : users[u].age > 18

\* the fields of row id of table t that are not in D are as before, and so is every other row
OnlyFields(t, tNew, id, D) ==
    /\ DOMAIN tNew = DOMAIN t
    /\ \A k \in DOMAIN t \ {id} : tNew[k] = t[k]
    /\ \A f \in DOMAIN t[id] \ D : tNew[id][f] = t[id][f]

\* C7: patch_project and patch_user of a stored id change only the fields the body
\* carries: every other field keeps its value (none is reset to null), the row
\* keeps its id, and every other row is unchanged.
C7_PatchOnlyGiven ==
    [][\/ users' = users /\ projects' = projects
       \/ /\ (last'.op = "patch_project" /\ last'.id \in DOMAIN projects) =>
                \A p \in ProjectUpdatePayloads :
                    \/ OnlyFields(projects, projects', last'.id, DOMAIN p) /\ users' = users
                    \/ ~patch_project(last'.id, p)
          /\ (last'.op = "patch_user" /\ last'.id \in DOMAIN users) =>
                \A p \in FewUserUpdatePayloads :
                    \/ OnlyFields(users, users', last'.id, DOMAIN p) /\ projects' = projects
                    \/ ~patch_user(last'.id, p)]_vars

\* a patch_project went through on a project that has a description and the second name
C7_Witness ==
    /\ last.op = "patch_project" /\ last.status = 200
    /\ last.body[1].description = "text" /\ last.body[1].name = "P2"

IdRoutes == {"get_user", "update_user", "patch_user", "delete_user",
             "get_project_with_owner", "update_project", "patch_project"}

TableOf(op) == IF op \in {"get_project_with_owner", "update_project", "patch_project"}
               THEN projects ELSE users

\* C8: get_user, update_user, patch_user, delete_user, get_project_with_owner,
\* update_project and patch_project, called with an id that is not the id of a
\* stored row, answer 404 and leave the store unchanged; so for an id that
\* delete_user removed, itself or by cascade.
C8_NotFound ==
    [][(last'.op \in IdRoutes /\ last'.id \notin DOMAIN TableOf(last'.op))
          => (last'.status = 404 /\ store' = store)]_vars

\* project 1 went with its owner (project 2 is stored, so 1 was) and is asked for
C8_Witness ==
    /\ last.op = "get_project_with_owner" /\ last.id = 1 /\ last.status = 404
    /\ 2 \in DOMAIN projects

\* C9: create_project with a body owner_id, and create_user_project with a path
\* user id, that is not the id of a stored user answer 404 and store no project;
\* when the user is stored, the project created has that id as its owner_id.
C9_OwnerIsGivenId ==
    [][/\ \A project \in ProjectCreatePayloads :
             (last'.op = "create_project" /\ create_project(project)) =>
                IF project.owner_id \notin DOMAIN users
                THEN last'.status = 404 /\ projects' = projects
                ELSE last'.status = 201 => last'.body[1].owner_id = project.owner_id
       /\ last'.op = "create_user_project" =>
                IF last'.id \notin DOMAIN users
                THEN last'.status = 404 /\ projects' = projects
                ELSE last'.status = 201 => last'.body[1].owner_id = last'.id]_vars

\* the page of the courses by id, from position offset + 1, of at most limit rows
IsPage(body, limit, offset) ==
    /\ Len(body) = Max({0, Min({limit, Cardinality(DOMAIN courses) - offset})})
    /\ \A k \in 1..Len(body) :
          /\ body[k].id \in DOMAIN courses
          /\ Cardinality({i \in DOMAIN courses : i < body[k].id}) = offset + k - 1
          /\ body[k] = CourseRead(body[k].id, courses[body[k].id])

\* C10: list_courses(limit, offset) answers the stored courses by ascending id,
\* without the first `offset` and at most `limit` of the rest (limit 10 and offset
\* 0 when not given), and changes nothing; a created course gets an id above every
\* stored id, so limit=1, offset=1 after two creates is the second course created.
C10_Page ==
    [][/\ \A limit \in (0..MaxLimit) \cup {Absent}, offset \in (0..MaxLimit) \cup {Absent} :
             (last'.op = "list_courses" /\ list_courses(limit, offset)) =>
                /\ IsPage(last'.body, IF limit = Absent THEN 10 ELSE limit,
                          IF offset = Absent THEN 0 ELSE offset)
                /\ last'.status = 200
                /\ store' = store
       /\ (last'.op = "create_course" /\ last'.status = 201) =>
                /\ \A k \in DOMAIN courses : k < last'.body[1].id
                /\ DOMAIN courses' = DOMAIN courses \cup {last'.body[1].id}
                /\ Same(courses', courses, DOMAIN courses)]_vars

\* two courses are stored and the page holds the second one alone
C10_Witness ==
    /\ last.op = "list_courses"
    /\ Cardinality(DOMAIN courses) = 2
    /\ Len(last.body) = 1 /\ last.body[1].id = 2

====
